---------------------------- MODULE Spec2Model ----------------------------
(***************************************************************************)
(* A model of mbta_tracker.py: the Transport (mbta_get), the Station       *)
(* Resolver (find_station_parent_ids_for_routes), minutes_until and the    *)
(* per-station aggregation of one poll tick in main(), the Direction       *)
(* Resolver (get_route_direction_map), fetch_predictions and the startup   *)
(* and poll loop of main().                                                *)
(*                                                                         *)
(* Python values are modelled as follows.  A text is a sequence of         *)
(* characters or words.  An optional value (a header, a dict key that may  *)
(* be absent or null) is a record with a tag field saying which case it    *)
(* is.  An exception that nothing catches ends the operation in the        *)
(* position "raised".                                                      *)
(***************************************************************************)
EXTENDS Integers, Sequences, FiniteSets, Bags, TLC

VARIABLES
    g_pc,         \* mbta_get: "loop" (inside the for loop), "returned", "raised"
    attempt,      \* mbta_get: the for loop's variable, 0..2
    g_ret,        \* mbta_get: the value returned
    resps,        \* mbta_get: the upstream outcomes of this call so far, in order
    s_pc,         \* find_station_parent_ids_for_routes: "fetch", "stops", "returned", "raised"
    station_name, \* its argument station_name
    route_ids,    \* its argument route_ids
    rid_i,        \* index in route_ids of the route of the for loop
    stops_left,   \* stops of the current response the inner loop has not reached yet
    parent_ids,   \* its local set parent_ids
    stops_seen,   \* every stop the upstream returned to this call so far
    s_result,     \* the list it returned
    m_pc,         \* minutes_until: "call", "returned"
    iso_str,      \* its argument iso_str
    m_now,        \* its argument now
    m_result,     \* the value it returned
    t_pc,         \* main, one station of one tick: "station", "fetch", "included",
                  \* "records", "print", "done", "raised"
    t_exc,        \* the exception that escaped main ("none" while none did)
    t_parent_ids, \* t["parent_ids"] of the station
    pid_i,        \* index in t_parent_ids of the pid of the for loop
    included,     \* the included entities of the current response
    preds,        \* the records of the current response the loop has not reached yet
    preds_left,   \* how many records the current response still holds
    trip_headsign, \* main's local dict trip_headsign
    buckets,      \* main's local dict buckets
    t_now,        \* the clock minutes_until reads
    processed,    \* the records the loop has handled, each with what it appended
    shown,        \* the sub-blocks printed for the station: display group and items
    d_pc,         \* get_route_direction_map: "ready" (between calls), "raised"
    d_exc,        \* the exception that escaped the last call ("none" while none did)
    cache,        \* get_route_direction_map._cache
    d_data,       \* the payload mbta_get returned to the last call that asked for one
    d_calls,      \* the calls made so far: route, whether mbta_get was called, result
    f_pc,         \* fetch_predictions: "call", "returned"
    stop_id,      \* its argument stop_id
    f_route_ids,  \* its argument route_ids
    f_params,     \* the params it passes to mbta_get
    f_j,          \* the payload mbta_get returned to it
    f_ret,        \* the value it returned
    p_pc,         \* main: "resolve", "check", "exit1", "tick", "sleep", "interrupted", "raised"
    resolved_targets, \* main's list resolved_targets: the parent_ids of each entry
    st_i,         \* index in resolved_targets of the station of the tick's for loop
    tick,         \* number of the poll tick (iteration of `while True`)
    output,       \* the station blocks printed in this tick, in order
    requests,     \* the requests main made in this tick, in order
    stops_requests \* how many /stops requests the process has made

getVars == <<g_pc, attempt, g_ret, resps>>

findVars == <<s_pc, station_name, route_ids, rid_i, stops_left, parent_ids, stops_seen, s_result>>

minVars == <<m_pc, iso_str, m_now, m_result>>

tickVars ==
    <<t_pc, t_exc, t_parent_ids, pid_i, included, preds, preds_left, trip_headsign,
      buckets, t_now, processed, shown>>

dirVars == <<d_pc, d_exc, cache, d_data, d_calls>>

fetchVars == <<f_pc, stop_id, f_route_ids, f_params, f_j, f_ret>>

mainVars == <<p_pc, resolved_targets, st_i, tick, output, requests, stops_requests>>

vars == <<getVars, findVars, minVars, tickVars, dirVars, fetchVars, mainVars>>

(***************************************************************************)
(* Bounds of the model.                                                    *)
(***************************************************************************)
\* longest Retry-After header text, in characters
MaxHdr == 2

\* most stops in one /stops response
MaxStops == 2

\* latest instant of a timestamp, in seconds
MaxTime == 200

\* most prediction records in one /predictions response
MaxBatch == 2

(***************************************************************************)
(* Transport: mbta_get                                                     *)
(***************************************************************************)
\* {"data": [], "included": []}
Fallback == [data |-> <<>>, included |-> <<>>]

\* JSON bodies an upstream 200 response can carry (record ids stand for records)
Bodies == { [data |-> <<>>, included |-> <<>>], [data |-> <<1>>, included |-> <<>>] }

HdrChars == {"2", "-", "G"}

Digits == {"2"}

RECURSIVE TextsUpTo(_)
TextsUpTo(n) ==
    IF n = 0 THEN {<<>>}
    ELSE LET shorter == TextsUpTo(n - 1)
         IN  shorter \cup {Append(t, c) : t \in {s \in shorter : Len(s) = n - 1}, c \in HdrChars}

\* r.headers.get("Retry-After"): None, or the header's text
NoHeader == [present |-> FALSE, text |-> <<>>]

RetryAfterValues == {NoHeader} \cup {[present |-> TRUE, text |-> t] : t \in TextsUpTo(MaxHdr)}

DigitValue(c) == IF c = "2" THEN 2 ELSE 0

RECURSIVE DigitsValue(_)
DigitsValue(t) ==
    IF t = <<>> THEN 0
    ELSE 10 * DigitsValue(SubSeq(t, 1, Len(t) - 1)) + DigitValue(t[Len(t)])

AllDigits(t) == Len(t) >= 1 /\ \A i \in 1..Len(t) : t[i] \in Digits

\* int(text): an optional sign and at least one digit, else ValueError
IntParses(t) ==
    \/ AllDigits(t)
    \/ Len(t) >= 2 /\ t[1] = "-" /\ AllDigits(Tail(t))

IntValue(t) == IF t[1] = "-" THEN 0 - DigitsValue(Tail(t)) ELSE DigitsValue(t)

\* What one SESSION.get can end in.  exc: the exception SESSION.get raises
\* ("none" when a response arrives).  json: whether the body of the response
\* is JSON; r.json() raises requests.JSONDecodeError, a RequestException, on
\* a body that is not.
Resp(exc, status, ra, json, body) ==
    [exc |-> exc, status |-> status, retry_after |-> ra, json |-> json, body |-> body]

OkResponses == {Resp("none", 200, NoHeader, TRUE, b) : b \in Bodies}

NonJsonResponses == {Resp("none", 200, NoHeader, FALSE, Fallback)}

RateLimited == {Resp("none", 429, ra, TRUE, Fallback) : ra \in RetryAfterValues}

HttpErrors == {Resp("none", 500, NoHeader, TRUE, Fallback)}

NetErrors == {Resp(e, 0, NoHeader, TRUE, Fallback) : e \in {"ConnectionError", "Timeout"}}

Responses == OkResponses \cup NonJsonResponses \cup RateLimited \cup HttpErrors \cup NetErrors

LoopState(pc, a, ret) == [pc |-> pc, attempt |-> a, ret |-> ret]

\* mutant: gives up one attempt early
mbta_get_except_early(a) ==
    IF a >= 1 THEN LoopState("returned", a, Fallback)
    ELSE LoopState("loop", a + 1, Fallback)

\* lines 84-90: except requests.RequestException
mbta_get_except(a) ==
    IF a = 2 THEN LoopState("returned", a, Fallback)
    ELSE LoopState("loop", a + 1, Fallback)

\* lines 67-76: the 429 branch; `continue` takes the next value of range(3),
\* and after the last one the loop ends and line 93 returns the fallback
mbta_get_429(a, r) ==
    LET ra == r.retry_after
        truthy == ra.present /\ ra.text # <<>>
    IN  IF truthy /\ ~IntParses(ra.text) THEN LoopState("raised", a, Fallback)
        ELSE LET wait == IF truthy THEN IntValue(ra.text) ELSE 1
             IN  IF wait < 0 THEN LoopState("raised", a, Fallback)
                 ELSE IF a = 2 THEN LoopState("returned", a, Fallback)
                 ELSE LoopState("loop", a + 1, Fallback)

\* lines 63-90: one iteration of `for attempt in range(3)` on outcome r
mbta_get_iter(a, r) ==
    IF r.exc # "none" THEN mbta_get_except(a)
    ELSE IF r.status = 429 THEN mbta_get_429(a, r)
    ELSE IF r.status >= 400 THEN mbta_get_except(a)
    ELSE IF ~r.json THEN mbta_get_except(a)
    ELSE LoopState("returned", a, r.body)

\* mbta_get over the outcomes rs of its successive GETs: the position it ends
\* in, the value returned and the number of GETs issued
RECURSIVE mbta_get_from(_, _, _)
mbta_get_from(a, rs, n) ==
    IF rs = <<>> THEN [pc |-> "loop", ret |-> Fallback, gets |-> n]
    ELSE LET st == mbta_get_iter(a, Head(rs))
         IN  IF st.pc = "loop" THEN mbta_get_from(st.attempt, Tail(rs), n + 1)
             ELSE [pc |-> st.pc, ret |-> st.ret, gets |-> n + 1]

mbta_get(rs) == mbta_get_from(0, rs, 0)

\* the upstream outcomes the callers of mbta_get are run against: every
\* run of GETs over these responses that ends the call
CallResponses ==
    OkResponses \cup HttpErrors
        \cup {Resp("none", 429, ra, TRUE, Fallback) : ra \in {NoHeader, [present |-> TRUE, text |-> <<"G">>]}}

CallSeqs ==
    LET one == {<<r>> : r \in CallResponses}
        two == {<<r1, r2>> : r1 \in CallResponses, r2 \in CallResponses}
        three == {<<r1, r2, r3>> : r1 \in CallResponses, r2 \in CallResponses, r3 \in CallResponses}
        ends(rs) == /\ mbta_get(rs).pc # "loop"
                    /\ mbta_get(rs).gets = Len(rs)
    IN  {rs \in one \cup two \cup three : ends(rs)}

(***************************************************************************)
(* Station Resolver: find_station_parent_ids_for_routes                    *)
(***************************************************************************)
\* str.lower() on the letters of the model's names
LowerChar(c) ==
    IF c = "P" THEN "p" ELSE IF c = "O" THEN "o" ELSE IF c = "N" THEN "n"
    ELSE IF c = "I" THEN "i" ELSE IF c = "U" THEN "u" ELSE IF c = "T" THEN "t"
    ELSE IF c = "B" THEN "b" ELSE IF c = "D" THEN "d" ELSE IF c = "S" THEN "s"
    ELSE c

lower(t) == [i \in 1..Len(t) |-> LowerChar(t[i])]

\* ord() of the characters of the model's identifiers
CodePoint(c) == IF c = "7" THEN 55 ELSE IF c = "k" THEN 107 ELSE IF c = "p" THEN 112 ELSE 0

\* Python's < on str: by code point, a proper prefix first
RECURSIVE TextLess(_, _)
TextLess(a, b) ==
    IF b = <<>> THEN FALSE
    ELSE IF a = <<>> THEN TRUE
    ELSE IF CodePoint(Head(a)) # CodePoint(Head(b)) THEN CodePoint(Head(a)) < CodePoint(Head(b))
    ELSE TextLess(Tail(a), Tail(b))

\* sorted() of a set of str
RECURSIVE sorted(_)
sorted(S) ==
    IF S = {} THEN <<>>
    ELSE LET least == CHOOSE x \in S : \A y \in S \ {x} : TextLess(x, y)
         IN  <<least>> \o sorted(S \ {least})

StopIds == {<<"7">>, <<"p">>, <<"p", "k">>}

\* attributes.parent_station: null, "" or the id of a parent place
NoParent == [present |-> FALSE, text |-> <<>>]

ParentValues == {NoParent, [present |-> TRUE, text |-> <<>>], [present |-> TRUE, text |-> <<"p">>]}

StopNames == {<<"P">>, <<"o">>}

StationNames == {<<"p">>, <<"P">>, <<"N">>}

\* the stop records of a /stops response: {id, attributes: {name, parent_station}}
Stops ==
    {[id |-> i, name |-> n, parent_station |-> ps] :
        i \in StopIds, n \in StopNames, ps \in ParentValues}

\* the route lists of the calls
RouteLists == {<<"Red">>, <<"Red", "Green-B">>}

\* mutant: compares the names as written
names_match_exact(name, target) == name = target

\* line 178: name.lower() == station_name.lower()
names_match(name, target) == lower(name) = lower(target)

\* line 179: parent if parent else s.get("id")
stop_ident(s) ==
    IF s.parent_station.present /\ s.parent_station.text # <<>>
    THEN s.parent_station.text
    ELSE s.id

\* lines 174-179: the body of `for s in stops`
find_add(ids, s, target) ==
    IF names_match(s.name, target) THEN ids \cup {stop_ident(s)} ELSE ids

(***************************************************************************)
(* minutes_until                                                           *)
(***************************************************************************)
\* An ISO 8601 text is modelled by what datetime.fromisoformat reads in it:
\* kind "z" (ends in Z), "offset" (ends in a UTC offset such as -04:00),
\* "naive" (no zone), "garbage" (no ISO 8601 text), and for the optional
\* argument "none" (None) and "empty" ("").  local is the wall-clock time
\* written, in seconds, and offset the UTC offset written, in seconds.
Stamp(kind, local, offset) == [kind |-> kind, local |-> local, offset |-> offset]

NoStamp == Stamp("none", 0, 0)

UtcOffsets == {0 - 14400, 0}

\* instants are counted from 04:00:00 of the epoch's first day, so that the
\* wall-clock time of an instant at offset -04:00 is not negative
Instants == {14400 + t : t \in 0..MaxTime}

Timestamps ==
    {NoStamp, Stamp("empty", 0, 0), Stamp("garbage", 0, 0)}
        \cup {Stamp("z", t, 0) : t \in Instants}
        \cup {Stamp("naive", t, 0) : t \in Instants}
        \cup {Stamp("offset", t + o, o) : t \in Instants, o \in UtcOffsets}

Nows == {14400 + t : t \in 61..65}

\* an Optional[int]
NoValue == [some |-> FALSE, v |-> 0]

Some(n) == [some |-> TRUE, v |-> n]

\* `not iso_str`
falsy(iso) == iso.kind \in {"none", "empty"}

\* line 275: fromisoformat(iso_str.replace("Z", "+00:00")) as a UTC instant
target_instant(iso) == IF iso.kind = "z" THEN iso.local ELSE iso.local - iso.offset

\* line 279: max(0, mins)
clamp(mins) == IF mins < 0 THEN 0 ELSE mins

\* mutant: rounds to the nearest minute instead of flooring
minutes_until_rounded(iso, now) ==
    IF falsy(iso) THEN NoValue
    ELSE IF iso.kind \in {"garbage", "naive"} THEN NoValue
    ELSE LET delta_sec == target_instant(iso) - now
         IN  Some(clamp((delta_sec + 30) \div 60))

\* mutant: does not clamp at 0
minutes_until_unclamped(iso, now) ==
    IF falsy(iso) THEN NoValue
    ELSE IF iso.kind \in {"garbage", "naive"} THEN NoValue
    ELSE LET delta_sec == target_instant(iso) - now
         IN  Some(delta_sec \div 60)

\* lines 272-281.  A text that is no ISO 8601 makes fromisoformat raise
\* ValueError, and a naive datetime makes `target - now` raise TypeError
\* (now is aware): both are caught by `except Exception`.
minutes_until(iso, now) ==
    IF falsy(iso) THEN NoValue
    ELSE IF iso.kind \in {"garbage", "naive"} THEN NoValue
    ELSE LET delta_sec == target_instant(iso) - now
         IN  Some(clamp(delta_sec \div 60))

MinIdle ==
    /\ m_pc = "idle"
    /\ iso_str = NoStamp
    /\ m_now = 14400
    /\ m_result = NoValue

(***************************************************************************)
(* main: the aggregation of one station in one poll tick                   *)
(***************************************************************************)
MAX_PREDICTIONS_PER_BUCKET == 3

\* a dict with no key
EmptyDict == [k \in {} |-> 0]

\* A route id is the list of its parts between hyphens ("Green-B" is
\* <<"Green", "B">>), a headsign the list of its words, where the word
\* <<"tag", b>> is the text "(b)".
Word(w) == <<"w", w>>

Tag(branch) == <<"tag", branch>>

\* the route ids of the records: routes of the priority list, branches of the
\* Green family, and a route that is neither
RouteIds == {<<"Red">>, <<"Green", "B">>, <<"Green", "C">>, <<"Mattapan">>}

\* the included entities of a response: {type, id, attributes: {headsign}}
Entity(type, has_id, id, headsign) ==
    [type |-> type, has_id |-> has_id, id |-> id, headsign |-> headsign]

IncludedLists ==
    { <<>>,
      <<Entity("trip", TRUE, "t1", <<>>),
        Entity("stop", TRUE, "t2", <<Word("Alewife")>>),
        Entity("trip", TRUE, "t2", <<Word("Ashmont")>>),
        Entity("trip", TRUE, "t3", <<Word("Ashmont"), Tag("B")>>)>>,
      <<Entity("trip", FALSE, "", <<Word("Ashmont")>>)>> }

\* A value that may be absent, null or a dict: t is "absent", "null" or "obj".
\* attributes: {arrival_time, departure_time}
Attrs(t, arr, dep) == [t |-> t, arrival_time |-> arr, departure_time |-> dep]

\* one relationship: {data: {id}}; data is "absent", "null" or "obj", and
\* has_id says whether data holds an id that is not null
Rel(t, data, has_id, id) == [t |-> t, data |-> data, has_id |-> has_id, id |-> id]

\* relationships: {route, trip}
Rels(t, route, trip) == [t |-> t, route |-> route, trip |-> trip]

Pred(attrs, rels) == [attributes |-> attrs, relationships |-> rels]

\* the arrival and departure times of the records, around the clock's Now0
Now0 == 14400 + 100

TimesGood ==
    { Attrs("obj", Stamp("z", Now0 - 30, 0), NoStamp),
      Attrs("obj", Stamp("offset", Now0 + 60 - 14400, 0 - 14400), Stamp("z", Now0 - 30, 0)),
      Attrs("obj", NoStamp, Stamp("z", Now0 + 61, 0)) }

TimesOdd ==
    { Attrs("absent", NoStamp, NoStamp),
      Attrs("null", NoStamp, NoStamp),
      Attrs("obj", NoStamp, NoStamp),
      Attrs("obj", Stamp("empty", 0, 0), Stamp("z", Now0 - 61, 0)),
      Attrs("obj", Stamp("garbage", 0, 0), Stamp("z", Now0 + 61, 0)),
      Attrs("obj", Stamp("naive", Now0 + 61, 0), NoStamp) }

RouteRelsGood == {Rel("obj", "obj", TRUE, r) : r \in RouteIds}

RouteRelsOdd ==
    { Rel("absent", "absent", FALSE, <<>>), Rel("null", "absent", FALSE, <<>>),
      Rel("obj", "absent", FALSE, <<>>), Rel("obj", "null", FALSE, <<>>),
      Rel("obj", "obj", FALSE, <<>>) }

TripRelsGood == {Rel("obj", "obj", TRUE, t) : t \in {"t1", "t2", "t3"}}

TripRelsOdd ==
    { Rel("absent", "absent", FALSE, ""), Rel("null", "absent", FALSE, ""),
      Rel("obj", "absent", FALSE, ""), Rel("obj", "null", FALSE, ""),
      Rel("obj", "obj", FALSE, "") }

GoodAttrs == Attrs("obj", Stamp("z", Now0 - 30, 0), NoStamp)

GoodRoute == Rel("obj", "obj", TRUE, <<"Red">>)

GoodTrip == Rel("obj", "obj", TRUE, "t2")

\* the records the upstream is taken to send: every record of the documented
\* shape, and every record that departs from it in one place
Predictions ==
    {Pred(a, Rels("obj", r, t)) : a \in TimesGood, r \in RouteRelsGood, t \in TripRelsGood}
        \cup {Pred(a, Rels("obj", GoodRoute, GoodTrip)) : a \in TimesOdd}
        \cup {Pred(GoodAttrs, Rels("obj", r, GoodTrip)) : r \in RouteRelsOdd}
        \cup {Pred(GoodAttrs, Rels("obj", GoodRoute, t)) : t \in TripRelsOdd}
        \cup {Pred(GoodAttrs, Rels(x, GoodRoute, GoodTrip)) : x \in {"absent", "null"}}

\* x.get(key, {}).get("data", {}).get("id") on relationship `one` of the
\* relationships bag whose tag is rels_t: "raise" (AttributeError: None has
\* no get), "none" (the value None) or "val" (the id)
rel_id(rels_t, one) ==
    IF rels_t = "null" THEN "raise"
    ELSE IF rels_t = "absent" THEN "none"
    ELSE IF one.t = "null" THEN "raise"
    ELSE IF one.t = "absent" THEN "none"
    ELSE IF one.data = "null" THEN "raise"
    ELSE IF one.data = "absent" THEN "none"
    ELSE IF one.has_id THEN "val" ELSE "none"

\* lines 373-375: the trip_headsign lookup of a response; inc["id"] raises
\* KeyError on a trip entity without id
RECURSIVE build_trip_headsign(_, _)
build_trip_headsign(incs, acc) ==
    IF incs = <<>> THEN [exc |-> "none", map |-> acc]
    ELSE LET inc == Head(incs)
         IN  IF inc.type # "trip" THEN build_trip_headsign(Tail(incs), acc)
             ELSE IF ~inc.has_id THEN [exc |-> "KeyError", map |-> acc]
             ELSE build_trip_headsign(Tail(incs), (inc.id :> inc.headsign) @@ acc)

\* rid.startswith("Green-")
is_green_branch(rid) == Len(rid) >= 2 /\ rid[1] = "Green"

\* line 392
display_rid_of(rid) == IF is_green_branch(rid) THEN <<"Green">> ELSE rid

\* lines 397-403: the branch tag; rid.split("-")[1] is the second part
headsign_of(rid, hs) ==
    IF is_green_branch(rid)
    THEN LET branch == rid[2]
         IN  IF hs # <<>> /\ ~(\E i \in 1..Len(hs) : hs[i] = Tag(branch))
             THEN Append(hs, Tag(branch))
             ELSE hs
    ELSE hs

\* line 383: attrs.get("arrival_time") or attrs.get("departure_time")
when_iso(attrs) ==
    IF attrs.t = "absent" THEN NoStamp
    ELSE IF ~falsy(attrs.arrival_time) THEN attrs.arrival_time
    ELSE attrs.departure_time

\* what the loop body does with one record: "skip" (continue), "raise" (an
\* AttributeError escapes) or "append" of (mins, hs) to display_rid
Outcome(kind, drid, mins, hs) == [kind |-> kind, display_rid |-> drid, mins |-> mins, hs |-> hs]

Skipped == Outcome("skip", <<>>, 0, <<>>)

Raises == Outcome("raise", <<>>, 0, <<>>)

\* lines 395-405, for a record with route id rid and minutes mins
main_headsign(p, th, rid, mins) ==
    LET tc == rel_id(p.relationships.t, p.relationships.trip)
        trip_id == p.relationships.trip.id
        hs == IF tc = "val" /\ trip_id \in DOMAIN th THEN th[trip_id] ELSE <<>>
    IN  IF tc = "raise" THEN Raises
        ELSE Outcome("append", display_rid_of(rid), mins, headsign_of(rid, hs))

\* lines 379-405: the body of `for p in preds`
main_record(p, th, clock) ==
    LET rc == rel_id(p.relationships.t, p.relationships.route)
    IN  IF rc = "raise" \/ p.attributes.t = "null" THEN Raises
        ELSE LET iso == when_iso(p.attributes)
             IN  IF rc = "none" \/ falsy(iso) THEN Skipped
                 ELSE LET mins == minutes_until(iso, clock)
                      IN  IF ~mins.some THEN Skipped
                          ELSE main_headsign(p, th, p.relationships.route.id, mins.v)

\* line 405: buckets.setdefault(display_rid, []).append((mins, hs)).  A
\* bucket is the bag of the entries of its list: the list is read once, by
\* set(), which keeps neither order nor multiplicity.
bucket_append(b, out) ==
    LET e == <<out.mins, out.hs>>
        k == out.display_rid
    IN  IF k \in DOMAIN b THEN [b EXCEPT ![k] = @ (+) SetToBag({e})]
        ELSE (k :> SetToBag({e})) @@ b

main_buckets(b, out) == IF out.kind = "append" THEN bucket_append(b, out) ELSE b

\* variant: the groups in the opposite order
route_order_reversed == << <<"Green">>, <<"Red">>, <<"Orange">>, <<"Blue">> >>

\* line 354
route_order == << <<"Blue">>, <<"Orange">>, <<"Red">>, <<"Green">> >>

\* mutant: keeps one entry for each number of minutes
dedupe_by_minutes(bucket) ==
    LET S == BagToSet(bucket)
    IN  {CHOOSE e \in S : e[1] = m : m \in {x[1] : x \in S}}

\* set(buckets[display_rid])
dedupe(bucket) == BagToSet(bucket)

\* sorted(S, key=lambda x: x[0]): ascending by minutes; entries of equal
\* minutes keep the order in which the set yields them, which the hashes of
\* the headsigns decide (str hashes are salted per process): every order
RECURSIVE sorted_by_minutes(_)
sorted_by_minutes(S) ==
    IF S = {} THEN {<<>>}
    ELSE UNION { {<<e>> \o rest : rest \in sorted_by_minutes(S \ {e})} :
                   e \in {x \in S : \A y \in S : x[1] <= y[1]} }

\* mutant: cuts one entry late
truncate_late(items) ==
    SubSeq(items, 1, IF Len(items) < MAX_PREDICTIONS_PER_BUCKET + 1 THEN Len(items)
                     ELSE MAX_PREDICTIONS_PER_BUCKET + 1)

\* [:MAX_PREDICTIONS_PER_BUCKET]
truncate(items) ==
    SubSeq(items, 1, IF Len(items) < MAX_PREDICTIONS_PER_BUCKET THEN Len(items)
                     ELSE MAX_PREDICTIONS_PER_BUCKET)

\* line 412: the lists `items` can be
bucket_items(bucket) == {truncate(items) : items \in sorted_by_minutes(dedupe(bucket))}

\* lines 410-418: the sub-blocks printed for the groups of `order`
RECURSIVE print_blocks(_, _)
print_blocks(order, b) ==
    IF order = <<>> THEN {<<>>}
    ELSE LET rest == print_blocks(Tail(order), b)
             rid == Head(order)
         IN  IF rid \in DOMAIN b
             THEN {<<[display_rid |-> rid, items |-> items]>> \o r :
                      items \in bucket_items(b[rid]), r \in rest}
             ELSE rest

\* the resolved parent ids a station can have
ParentIdLists == {<<>>, <<"place-a">>, <<"place-a", "place-b">>}

TickIdle ==
    /\ t_pc = "idle"
    /\ t_exc = "none"
    /\ t_parent_ids = <<>>
    /\ pid_i = 1
    /\ included = <<>>
    /\ preds = <<>>
    /\ preds_left = 0
    /\ trip_headsign = EmptyDict
    /\ buckets = EmptyDict
    /\ t_now = Now0
    /\ processed = <<>>
    /\ shown = <<>>

FindIdle ==
    /\ s_pc = "idle"
    /\ station_name = <<>>
    /\ route_ids = <<>>
    /\ rid_i = 1
    /\ stops_left = 0
    /\ parent_ids = {}
    /\ stops_seen = {}
    /\ s_result = <<>>

(***************************************************************************)
(* Direction Resolver: get_route_direction_map                             *)
(***************************************************************************)
\* most entries of a direction_names list
MaxNames == 2

\* most calls of get_route_direction_map in a process
MaxCalls == 3

Outbound == <<"O", "u", "t", "b", "o", "u", "n", "d">>

Inbound == <<"I", "n", "b", "o", "u", "n", "d">>

\* the labels the upstream gives directions
DirLabels ==
    {Outbound, Inbound, lower(Inbound), <<"O", "U", "T", "B", "O", "U", "N", "D">>,
     <<"S", "o", "u", "t", "h">>}

\* an entry of direction_names: a str, or a value that is none (a number, null)
StrEntry(l) == [str |-> TRUE, text |-> l]

NonStrEntry == [str |-> FALSE, text |-> <<>>]

NameEntries == {StrEntry(l) : l \in DirLabels} \cup {NonStrEntry}

RECURSIVE ListsUpTo(_, _)
ListsUpTo(S, n) ==
    IF n = 0 THEN {<<>>}
    ELSE LET shorter == ListsUpTo(S, n - 1)
         IN  shorter \cup {Append(l, e) : l \in {x \in shorter : Len(x) = n - 1}, e \in S}

\* The payload of /routes/{id}, by the place where it departs from
\* {"data": {"attributes": {"direction_names": [...]}}}: "data_list" (data is
\* a list, as in the Transport's fallback), "data_absent", "data_null",
\* "attrs_absent", "attrs_null", "names_absent", "names_null", or "names"
\* (direction_names is the list `names`)
RoutePayload(shape, names) == [shape |-> shape, names |-> names]

FallbackPayload == RoutePayload("data_list", <<>>)

RoutePayloads ==
    {RoutePayload(sh, <<>>) :
        sh \in {"data_list", "data_absent", "data_null", "attrs_absent", "attrs_null",
                "names_absent", "names_null"}}
        \cup {RoutePayload("names", ns) : ns \in ListsUpTo(NameEntries, MaxNames)}

DirRoutes == {<<"Red">>, <<"Blue">>}

\* lines 119-123: data["data"]["attributes"]["direction_names"], or the
\* default when the subscripting raises (KeyError on an absent key, TypeError
\* on a list or on None).  A null direction_names raises nothing and is kept.
direction_names(data) ==
    IF data.shape = "names" THEN [kind |-> "list", names |-> data.names]
    ELSE IF data.shape = "names_null" THEN [kind |-> "none", names |-> <<>>]
    ELSE [kind |-> "list", names |-> <<StrEntry(Outbound), StrEntry(Inbound)>>]

\* lines 125-128: mapping[name.lower()] = idx over enumerate(direction_names)
\* from position idx on; name.lower() raises AttributeError on a value that
\* is no str
RECURSIVE label_mapping(_, _, _)
label_mapping(names, idx, acc) ==
    IF names = <<>> THEN [exc |-> "none", map |-> acc]
    ELSE IF ~Head(names).str THEN [exc |-> "AttributeError", map |-> acc]
    ELSE label_mapping(Tail(names), idx + 1, (lower(Head(names).text) :> idx) @@ acc)

\* variant: always the positional heuristic
direction_result_positional(mapping) == [outbound |-> 0, inbound |-> 1]

\* lines 132-140
direction_result(mapping) ==
    IF lower(Inbound) \in DOMAIN mapping /\ lower(Outbound) \in DOMAIN mapping
    THEN [inbound |-> mapping[lower(Inbound)], outbound |-> mapping[lower(Outbound)]]
    ELSE [outbound |-> 0, inbound |-> 1]

NoMapping == [outbound |-> 0 - 1, inbound |-> 0 - 1]

\* lines 119-140 on the payload mbta_get returned; enumerate(None) raises
\* TypeError
direction_map(data) ==
    LET dn == direction_names(data)
    IN  IF dn.kind = "none" THEN [exc |-> "TypeError", result |-> NoMapping]
        ELSE LET m == label_mapping(dn.names, 0, EmptyDict)
             IN  IF m.exc # "none" THEN [exc |-> m.exc, result |-> NoMapping]
                 ELSE [exc |-> "none", result |-> direction_result(m.map)]

\* variant: never finds the route in the cache
cached_never(route_id, c) == FALSE

\* line 115: route_id in cache
cached(route_id, c) == route_id \in DOMAIN c

\* the request ended in a response whose JSON body mbta_get returned
answered(rs) ==
    LET r == rs[Len(rs)]
    IN  r.exc = "none" /\ r.status < 400 /\ r.json

\* what a call of mbta_get can end in for its caller: whether it raised, and
\* whether it returned the JSON body of a response
CallOutcomes == {[pc |-> mbta_get(rs).pc, answered |-> answered(rs)] : rs \in CallSeqs}

\* one call of the log d_calls
DirCall(route_id, looked_up, fell_back, exc, result) ==
    [route_id |-> route_id, looked_up |-> looked_up, fell_back |-> fell_back,
     exc |-> exc, result |-> result]

(***************************************************************************)
(* fetch_predictions                                                       *)
(***************************************************************************)
\* a key of a payload that holds a list, or is absent
NoList == [present |-> FALSE, items |-> <<>>]

\* most records in the data of a /predictions payload given to fetch_predictions
MaxFetch == 2

\* a key of a payload that holds the list xs
SomeList(xs) == [present |-> TRUE, items |-> xs]

\* prediction records and included entities, named by their ids
RecordIds == {"p1", "p2", "p3"}

\* the payloads mbta_get returns for /predictions: {"data": [...], "included": [...]}
\* with either key possibly absent
PredPayloads ==
    {[data |-> d, included |-> i] :
        d \in {NoList} \cup {SomeList(xs) : xs \in ListsUpTo(RecordIds, MaxFetch)},
        i \in {NoList, SomeList(<<>>), SomeList(<<"t1">>)}}

\* {"data": [], "included": []} as a /predictions payload
FallbackPreds == [data |-> SomeList(<<>>), included |-> SomeList(<<>>)]

\* ",".join(route_ids)
RECURSIVE join(_)
join(ids) ==
    IF ids = <<>> THEN <<>>
    ELSE IF Len(ids) = 1 THEN ids
    ELSE <<Head(ids), ",">> \o join(Tail(ids))

\* lines 218-226: params
fetch_params(stop, ids) ==
    ("filter[stop]" :> <<stop>>) @@ ("filter[route]" :> join(ids))
        @@ ("sort" :> <<"arrival_time", ",", "departure_time">>)
        @@ ("page[limit]" :> <<"10">>) @@ ("include" :> <<"trip">>)
        @@ ("fields[prediction]" :> <<"arrival_time", ",", "departure_time", ",",
                                      "direction_id", ",", "stop", ",", "trip", ",", "route">>)
        @@ ("fields[trip]" :> <<"headsign">>)

\* Python values: a list and a tuple of the same items are different values
PyList(xs) == [type |-> "list", items |-> xs]

PyTuple(xs) == [type |-> "tuple", items |-> xs]

\* j.get(key, [])
get_list(v) == IF v.present THEN PyList(v.items) ELSE PyList(<<>>)

\* variant: the included entities first
fetch_predictions_swapped(j) == PyTuple(<<get_list(j.included), get_list(j.data)>>)

\* line 228: return j.get("data", []), j.get("included", [])
fetch_predictions(j) == PyTuple(<<get_list(j.data), get_list(j.included)>>)

(***************************************************************************)
(* main: startup resolution and the poll loop                              *)
(***************************************************************************)
\* most poll ticks followed
MaxTicks == 2

\* lines 25-37 (the directions are read into a local that nothing uses)
CONFIG ==
    << [station_name |-> "Bowdoin", routes |-> <<"Blue">>],
       [station_name |-> "Haymarket", routes |-> <<"Orange">>],
       [station_name |-> "Park Street",
        routes |-> <<"Red", "Green-B", "Green-C", "Green-D", "Green-E">>],
       [station_name |-> "Government Center",
        routes |-> <<"Green-B", "Green-C", "Green-D", "Green-E">>] >>

\* what find_station_parent_ids_for_routes can end in at line 329: a sorted
\* list of ids, or an exception that escaped mbta_get
ResolveOutcomes ==
    {[exc |-> "none", parent_ids |-> l] : l \in ParentIdLists}
        \cup {[exc |-> "ValueError", parent_ids |-> <<>>]}

\* lines 332-337
Target(item, ids) ==
    [station_name |-> item.station_name, routes |-> item.routes, parent_ids |-> ids]

\* variant: some station has no parent id
all_unresolved_any(targets) ==
    \E i \in 1..Len(targets) : Len(targets[i].parent_ids) = 0

\* line 339: all(len(t["parent_ids"]) == 0 for t in resolved_targets)
all_unresolved(targets) ==
    \A i \in 1..Len(targets) : Len(targets[i].parent_ids) = 0

\* variant: no station is skipped
skip_station_never(ids) == FALSE

\* line 360: not parent_ids
skip_station(ids) == ids = <<>>

\* variant: resolves the stop again before it fetches
pid_requests_resolving(i, pid, routes) ==
    << [path |-> "/stops", station |-> i, stop |-> pid,
        route |-> fetch_params(pid, routes)["filter[route]"]],
       [path |-> "/predictions", station |-> i, stop |-> pid,
        route |-> fetch_params(pid, routes)["filter[route]"]] >>

\* variant: one request per route of the station
pid_requests_per_route(i, pid, routes) ==
    [k \in 1..Len(routes) |->
        [path |-> "/predictions", station |-> i, stop |-> pid,
         route |-> fetch_params(pid, <<routes[k]>>)["filter[route]"]]]

\* lines 367-369: the requests main makes for parent id pid of station i,
\* fetch_predictions(pid, routes) being one mbta_get("/predictions", params)
\* whose route filter is that of lines 218-226
pid_requests(i, pid, routes) ==
    << [path |-> "/predictions", station |-> i, stop |-> pid,
        route |-> fetch_params(pid, routes)["filter[route]"]] >>

\* the records of the responses of the poll loop: a Red and a Green-B record
\* of the documented shape, a record whose trip data is null, and a record
\* without times
RedRecord == Pred(GoodAttrs, Rels("obj", GoodRoute, GoodTrip))

GreenRecord == Pred(GoodAttrs, Rels("obj", Rel("obj", "obj", TRUE, <<"Green", "B">>), GoodTrip))

NullTripRecord == Pred(GoodAttrs, Rels("obj", GoodRoute, Rel("obj", "null", FALSE, "")))

NoTimesRecord == Pred(Attrs("obj", NoStamp, NoStamp), Rels("obj", GoodRoute, GoodTrip))

\* the data of the /predictions responses of the poll loop
MainBatches ==
    { <<>>, <<RedRecord>>, <<GreenRecord>>, <<NullTripRecord>>, <<NoTimesRecord>>,
      <<GreenRecord, RedRecord>>, <<NoTimesRecord, RedRecord>> }

\* lines 378-405: `for p in preds or []` over ps, on the buckets b
RECURSIVE main_preds(_, _, _, _)
main_preds(ps, th, clock, b) ==
    IF ps = <<>> THEN [exc |-> "none", buckets |-> b]
    ELSE LET out == main_record(Head(ps), th, clock)
         IN  IF out.kind = "raise" THEN [exc |-> "AttributeError", buckets |-> b]
             ELSE main_preds(Tail(ps), th, clock, main_buckets(b, out))

\* lines 369-405 for one pid, on what fetch_predictions returned
main_pid(data, incs, clock, b) ==
    LET th == build_trip_headsign(incs, EmptyDict)
    IN  IF th.exc # "none" THEN [exc |-> th.exc, buckets |-> b]
        ELSE main_preds(data, th.map, clock, b)

\* the display groups of the sub-blocks sh, in the order printed
groups_of(sh) == [k \in 1..Len(sh) |-> sh[k].display_rid]

\* lines 408-418: what is printed for station i: its header and its sub-blocks;
\* had are the groups that accumulated predictions
Block(i, name, sh, b) ==
    [index |-> i, station |-> name, groups |-> groups_of(sh), had |-> DOMAIN b]

DirIdle ==
    /\ d_pc = "idle"
    /\ d_exc = "none"
    /\ cache = EmptyDict
    /\ d_data = FallbackPayload
    /\ d_calls = <<>>

FetchIdle ==
    /\ f_pc = "idle"
    /\ stop_id = ""
    /\ f_route_ids = <<>>
    /\ f_params = EmptyDict
    /\ f_j = FallbackPreds
    /\ f_ret = PyTuple(<<>>)

MainIdle ==
    /\ p_pc = "idle"
    /\ resolved_targets = <<>>
    /\ st_i = 1
    /\ tick = 0
    /\ output = <<>>
    /\ requests = <<>>
    /\ stops_requests = 0

GetIdle ==
    /\ g_pc = "idle"
    /\ attempt = 0
    /\ g_ret = Fallback
    /\ resps = <<>>

GetInit ==
    /\ g_pc = "loop"
    /\ attempt = 0
    /\ g_ret = Fallback
    /\ resps = <<>>
    /\ DirIdle
    /\ FetchIdle
    /\ MainIdle
    /\ FindIdle
    /\ MinIdle
    /\ TickIdle

\* one SESSION.get and what the loop body does with its outcome
MbtaGetAttempt ==
    /\ g_pc = "loop"
    /\ \E r \in Responses :
        LET st == mbta_get_iter(attempt, r)
        IN  /\ g_pc' = st.pc
            /\ attempt' = st.attempt
            /\ g_ret' = st.ret
            /\ resps' = Append(resps, r)
    /\ UNCHANGED <<dirVars, fetchVars, mainVars, findVars, minVars, tickVars>>

GetNext == MbtaGetAttempt

SpecGet == GetInit /\ [][GetNext]_vars

FindInit ==
    /\ DirIdle
    /\ FetchIdle
    /\ MainIdle
    /\ GetIdle
    /\ MinIdle
    /\ TickIdle
    /\ s_pc = "fetch"
    /\ station_name \in StationNames
    /\ route_ids \in RouteLists
    /\ rid_i = 1
    /\ stops_left = 0
    /\ parent_ids = {}
    /\ stops_seen = {}
    /\ s_result = <<>>

\* lines 165-172: mbta_get("/stops", ...).get("data", []) for the next route.
\* The stops of the response are drawn one by one as the inner loop reaches
\* them (FindStop); the loop reads each once, in order.
FindFetchStops ==
    /\ s_pc = "fetch"
    /\ rid_i <= Len(route_ids)
    /\ \E rs \in CallSeqs :
        LET out == mbta_get(rs)
        IN  IF out.pc = "raised"
            THEN /\ s_pc' = "raised"
                 /\ stops_left' = 0
            ELSE /\ s_pc' = "stops"
                 /\ IF out.ret.data = <<>>
                    THEN stops_left' = 0
                    ELSE stops_left' \in 1..MaxStops
    /\ UNCHANGED <<dirVars, fetchVars, mainVars, getVars, minVars, tickVars, station_name, route_ids, rid_i, parent_ids, stops_seen, s_result>>

\* lines 174-179: one iteration of `for s in stops`
FindStop ==
    /\ s_pc = "stops"
    /\ stops_left > 0
    /\ \E s \in Stops :
        /\ parent_ids' = find_add(parent_ids, s, station_name)
        /\ stops_seen' = stops_seen \cup {s}
    /\ stops_left' = stops_left - 1
    /\ UNCHANGED <<dirVars, fetchVars, mainVars, getVars, minVars, tickVars, s_pc, station_name, route_ids, rid_i, s_result>>

\* the end of `for s in stops`: on to the next route
FindNextRoute ==
    /\ s_pc = "stops"
    /\ stops_left = 0
    /\ rid_i' = rid_i + 1
    /\ s_pc' = "fetch"
    /\ UNCHANGED <<dirVars, fetchVars, mainVars, getVars, minVars, tickVars, station_name, route_ids, stops_left, parent_ids, stops_seen, s_result>>

\* line 180: return sorted(parent_ids)
FindReturn ==
    /\ s_pc = "fetch"
    /\ rid_i > Len(route_ids)
    /\ s_result' = sorted(parent_ids)
    /\ s_pc' = "returned"
    /\ UNCHANGED <<dirVars, fetchVars, mainVars, getVars, minVars, tickVars, station_name, route_ids, rid_i, stops_left, parent_ids, stops_seen>>

FindNext == FindFetchStops \/ FindStop \/ FindNextRoute \/ FindReturn

SpecStations == FindInit /\ [][FindNext]_vars

MinInit ==
    /\ DirIdle
    /\ FetchIdle
    /\ MainIdle
    /\ GetIdle
    /\ FindIdle
    /\ TickIdle
    /\ m_pc = "call"
    /\ iso_str \in Timestamps
    /\ m_now \in Nows
    /\ m_result = NoValue

\* a call minutes_until(iso_str, now)
MinutesUntil ==
    /\ m_pc = "call"
    /\ m_result' = minutes_until(iso_str, m_now)
    /\ m_pc' = "returned"
    /\ UNCHANGED <<dirVars, fetchVars, mainVars, getVars, findVars, tickVars, iso_str, m_now>>

MinNext == MinutesUntil

SpecMinutes == MinInit /\ [][MinNext]_vars

\* the state of main when it starts on a station in a tick
TickInit ==
    /\ DirIdle
    /\ FetchIdle
    /\ MainIdle
    /\ GetIdle
    /\ FindIdle
    /\ MinIdle
    /\ t_pc = "station"
    /\ t_exc = "none"
    /\ t_parent_ids \in ParentIdLists
    /\ pid_i = 1
    /\ included = <<>>
    /\ preds = <<>>
    /\ preds_left = 0
    /\ trip_headsign = EmptyDict
    /\ buckets = EmptyDict
    /\ t_now \in {Now0, Now0 + 1}
    /\ processed = <<>>
    /\ shown = <<>>

\* lines 360-361: a station without parent ids is skipped
TickSkipStation ==
    /\ t_pc = "station"
    /\ t_parent_ids = <<>>
    /\ t_pc' = "done"
    /\ UNCHANGED <<dirVars, fetchVars, mainVars, getVars, findVars, minVars, t_exc, t_parent_ids, pid_i, included, preds,
                   preds_left, trip_headsign, buckets, t_now, processed, shown>>

\* lines 367-375: fetch_predictions for the next pid and the trip_headsign
\* lookup of its response.  The records of the response are drawn one by one
\* as the loop reaches them (TickRecord); the loop reads each once, in order.
TickFetch ==
    /\ \/ t_pc = "station" /\ t_parent_ids # <<>>
       \/ t_pc = "fetch"
    /\ pid_i <= Len(t_parent_ids)
    /\ \E rs \in CallSeqs, incs \in IncludedLists :
        LET out == mbta_get(rs)
            th == build_trip_headsign(IF out.ret.data = <<>> THEN <<>> ELSE incs, EmptyDict)
        IN  IF out.pc = "raised"
            THEN /\ t_pc' = "raised"
                 /\ t_exc' = "ValueError"
                 /\ UNCHANGED <<trip_headsign, preds_left>>
            ELSE IF th.exc # "none"
            THEN /\ t_pc' = "raised"
                 /\ t_exc' = th.exc
                 /\ UNCHANGED <<trip_headsign, preds_left>>
            ELSE /\ t_pc' = "records"
                 /\ t_exc' = "none"
                 /\ trip_headsign' = th.map
                 /\ IF out.ret.data = <<>>
                    THEN preds_left' = 0
                    ELSE preds_left' \in 1..MaxBatch
    /\ UNCHANGED <<dirVars, fetchVars, mainVars, getVars, findVars, minVars, t_parent_ids, pid_i, included, preds,
                   buckets, t_now, processed, shown>>

\* lines 378-405: one iteration of `for p in preds`
TickRecord ==
    /\ t_pc = "records"
    /\ preds_left > 0
    /\ \E p \in Predictions :
        LET out == main_record(p, trip_headsign, t_now)
        IN  IF out.kind = "raise"
            THEN /\ t_pc' = "raised"
                 /\ t_exc' = "AttributeError"
                 /\ UNCHANGED buckets
            ELSE /\ buckets' = main_buckets(buckets, out)
                 /\ UNCHANGED <<t_pc, t_exc>>
    /\ preds_left' = preds_left - 1
    /\ UNCHANGED <<dirVars, fetchVars, mainVars, getVars, findVars, minVars, t_parent_ids, pid_i, included, preds,
                   trip_headsign, t_now, processed, shown>>

\* the end of `for p in preds`: on to the next pid, or to the printing
TickNextPid ==
    /\ t_pc = "records"
    /\ preds_left = 0
    /\ pid_i' = pid_i + 1
    /\ t_pc' = IF pid_i < Len(t_parent_ids) THEN "fetch" ELSE "print"
    /\ UNCHANGED <<dirVars, fetchVars, mainVars, getVars, findVars, minVars, t_exc, t_parent_ids, included, preds,
                   preds_left, trip_headsign, buckets, t_now, processed, shown>>

\* lines 408-418: the station header and one sub-block per group
TickPrint ==
    /\ t_pc = "print"
    /\ shown' \in print_blocks(route_order, buckets)
    /\ t_pc' = "done"
    /\ UNCHANGED <<dirVars, fetchVars, mainVars, getVars, findVars, minVars, t_exc, t_parent_ids, pid_i, included, preds,
                   preds_left, trip_headsign, buckets, t_now, processed>>

TickNext == TickSkipStation \/ TickFetch \/ TickRecord \/ TickNextPid \/ TickPrint

SpecTick == TickInit /\ [][TickNext]_vars

\* the /predictions responses of the batch specification
Batches ==
    {<<>>} \cup {<<p>> : p \in Predictions}
        \cup (IF MaxBatch >= 2 THEN {<<p, q>> : p \in Predictions, q \in Predictions} ELSE {})
        \cup (IF MaxBatch >= 3
              THEN {<<p, q, r>> : p \in Predictions, q \in Predictions, r \in Predictions}
              ELSE {})

\* the state of main when the response for a station's one pid has arrived
BatchInit ==
    /\ DirIdle
    /\ FetchIdle
    /\ MainIdle
    /\ GetIdle
    /\ FindIdle
    /\ MinIdle
    /\ t_pc = "included"
    /\ t_exc = "none"
    /\ t_parent_ids = <<"place-a">>
    /\ pid_i = 1
    /\ included \in IncludedLists
    /\ preds \in Batches
    /\ preds_left = Len(preds)
    /\ trip_headsign = EmptyDict
    /\ buckets = EmptyDict
    /\ t_now \in {Now0, Now0 + 1}
    /\ processed = <<>>
    /\ shown = <<>>

\* lines 372-375: the trip_headsign lookup of the response
BatchIncluded ==
    /\ t_pc = "included"
    /\ LET th == build_trip_headsign(included, EmptyDict)
       IN  IF th.exc # "none"
           THEN /\ t_pc' = "raised"
                /\ t_exc' = th.exc
                /\ UNCHANGED trip_headsign
           ELSE /\ t_pc' = "records"
                /\ trip_headsign' = th.map
                /\ UNCHANGED t_exc
    /\ UNCHANGED <<dirVars, fetchVars, mainVars, getVars, findVars, minVars, t_parent_ids, pid_i, included, preds,
                   preds_left, buckets, t_now, processed, shown>>

\* lines 378-405: one iteration of `for p in preds`, on the next record
BatchRecord ==
    /\ t_pc = "records"
    /\ preds # <<>>
    /\ LET p == Head(preds)
           out == main_record(p, trip_headsign, t_now)
       IN  /\ IF out.kind = "raise"
              THEN /\ t_pc' = "raised"
                   /\ t_exc' = "AttributeError"
                   /\ UNCHANGED buckets
              ELSE /\ buckets' = main_buckets(buckets, out)
                   /\ UNCHANGED <<t_pc, t_exc>>
           /\ processed' = Append(processed, [p |-> p, out |-> out])
    /\ preds' = Tail(preds)
    /\ preds_left' = preds_left - 1
    /\ UNCHANGED <<dirVars, fetchVars, mainVars, getVars, findVars, minVars, t_parent_ids, pid_i, included,
                   trip_headsign, t_now, shown>>

\* lines 408-418, after the only pid
BatchPrint ==
    /\ t_pc = "records"
    /\ preds = <<>>
    /\ shown' \in print_blocks(route_order, buckets)
    /\ t_pc' = "done"
    /\ UNCHANGED <<dirVars, fetchVars, mainVars, getVars, findVars, minVars, t_exc, t_parent_ids, pid_i, included, preds,
                   preds_left, trip_headsign, buckets, t_now, processed>>

BatchNext == BatchIncluded \/ BatchRecord \/ BatchPrint

SpecBatch == BatchInit /\ [][BatchNext]_vars

DirInit ==
    /\ GetIdle
    /\ FindIdle
    /\ MinIdle
    /\ TickIdle
    /\ FetchIdle
    /\ MainIdle
    /\ d_pc = "ready"
    /\ d_exc = "none"
    /\ cache = EmptyDict
    /\ d_data = FallbackPayload
    /\ d_calls = <<>>

\* lines 111-143: a call get_route_direction_map(route_id)
GetRouteDirectionMap ==
    /\ d_pc = "ready"
    /\ Len(d_calls) < MaxCalls
    /\ \E route_id \in DirRoutes :
        IF cached(route_id, cache)
        THEN /\ d_calls' = Append(d_calls, DirCall(route_id, FALSE, FALSE, "none", cache[route_id]))
             /\ UNCHANGED <<d_pc, d_exc, cache, d_data>>
        ELSE \E out \in CallOutcomes, body \in RoutePayloads :
                LET data == IF out.answered THEN body ELSE FallbackPayload
                    r == direction_map(data)
                    fell_back == data.shape \notin {"names", "names_null"}
                IN  IF out.pc = "raised"
                    THEN /\ d_pc' = "raised"
                         /\ d_exc' = "ValueError"
                         /\ d_calls' = Append(d_calls, DirCall(route_id, TRUE, FALSE, "ValueError", NoMapping))
                         /\ UNCHANGED <<cache, d_data>>
                    ELSE /\ d_data' = data
                         /\ d_exc' = r.exc
                         /\ d_pc' = IF r.exc = "none" THEN "ready" ELSE "raised"
                         /\ cache' = IF r.exc = "none" THEN (route_id :> r.result) @@ cache ELSE cache
                         /\ d_calls' = Append(d_calls, DirCall(route_id, TRUE, fell_back, r.exc, r.result))
    /\ UNCHANGED <<getVars, findVars, minVars, tickVars, fetchVars, mainVars>>

DirNext == GetRouteDirectionMap

SpecDir == DirInit /\ [][DirNext]_vars

FetchInit ==
    /\ GetIdle
    /\ FindIdle
    /\ MinIdle
    /\ TickIdle
    /\ DirIdle
    /\ MainIdle
    /\ f_pc = "call"
    /\ stop_id \in {"place-a", "place-b"}
    /\ f_route_ids \in {<<"Red">>, <<"Red", "Green-B">>}
    /\ f_params = EmptyDict
    /\ f_j = FallbackPreds
    /\ f_ret = PyTuple(<<>>)

\* lines 218-228: a call fetch_predictions(stop_id, route_ids)
FetchPredictions ==
    /\ f_pc = "call"
    /\ f_params' = fetch_params(stop_id, f_route_ids)
    /\ \E out \in CallOutcomes, body \in PredPayloads :
        LET j == IF out.answered THEN body ELSE FallbackPreds
        IN  IF out.pc = "raised"
            THEN /\ f_pc' = "raised"
                 /\ UNCHANGED <<f_j, f_ret>>
            ELSE /\ f_pc' = "returned"
                 /\ f_j' = j
                 /\ f_ret' = fetch_predictions(j)
    /\ UNCHANGED <<getVars, findVars, minVars, tickVars, dirVars, mainVars, stop_id, f_route_ids>>

FetchNext == FetchPredictions

SpecFetch == FetchInit /\ [][FetchNext]_vars

MainInit ==
    /\ GetIdle
    /\ FindIdle
    /\ MinIdle
    /\ TickIdle
    /\ DirIdle
    /\ FetchIdle
    /\ p_pc = "resolve"
    /\ resolved_targets = <<>>
    /\ st_i = 1
    /\ tick = 0
    /\ output = <<>>
    /\ requests = <<>>
    /\ stops_requests = 0

\* lines 324-337: one iteration of `for item in CONFIG`
MainResolve ==
    /\ p_pc = "resolve"
    /\ Len(resolved_targets) < Len(CONFIG)
    /\ LET item == CONFIG[Len(resolved_targets) + 1]
       IN  \E o \in ResolveOutcomes :
               IF o.exc # "none"
               THEN /\ p_pc' = "raised"
                    /\ t_exc' = o.exc
                    /\ stops_requests' = stops_requests + 1
                    /\ UNCHANGED resolved_targets
               ELSE /\ resolved_targets' = Append(resolved_targets, Target(item, o.parent_ids))
                    /\ stops_requests' = stops_requests + Len(item.routes)
                    /\ UNCHANGED <<p_pc, t_exc>>
    /\ UNCHANGED <<getVars, findVars, minVars, dirVars, fetchVars, st_i, tick, output, requests,
                   t_pc, t_parent_ids, pid_i, included, preds, preds_left, trip_headsign,
                   buckets, t_now, processed, shown>>

\* lines 339-351: the fatal exit, or the start of the first tick
MainCheck ==
    /\ p_pc = "resolve"
    /\ Len(resolved_targets) = Len(CONFIG)
    /\ IF all_unresolved(resolved_targets)
       THEN /\ p_pc' = "exit1"
            /\ UNCHANGED tick
       ELSE /\ p_pc' = "tick"
            /\ tick' = 1
    /\ UNCHANGED <<getVars, findVars, minVars, dirVars, fetchVars, tickVars, resolved_targets,
                   st_i, output, requests, stops_requests>>

\* lines 356-365: the next station of the tick: skipped, or its buckets set up
MainStation ==
    /\ p_pc = "tick"
    /\ t_pc \in {"idle", "done"}
    /\ st_i <= Len(resolved_targets)
    /\ LET t == resolved_targets[st_i]
       IN  IF skip_station(t.parent_ids)
           THEN /\ st_i' = st_i + 1
                /\ UNCHANGED <<t_pc, t_parent_ids, pid_i, buckets, shown>>
           ELSE /\ t_pc' = "fetch"
                /\ t_parent_ids' = t.parent_ids
                /\ pid_i' = 1
                /\ buckets' = EmptyDict
                /\ shown' = <<>>
                /\ UNCHANGED st_i
    /\ UNCHANGED <<getVars, findVars, minVars, dirVars, fetchVars, p_pc, resolved_targets, tick,
                   output, requests, stops_requests, t_exc, included, preds, preds_left,
                   trip_headsign, t_now, processed>>

\* lines 367-405: one iteration of `for pid in parent_ids`
MainPid ==
    /\ p_pc = "tick"
    /\ t_pc = "fetch"
    /\ pid_i <= Len(t_parent_ids)
    /\ LET reqs == pid_requests(st_i, t_parent_ids[pid_i], resolved_targets[st_i].routes)
       IN  /\ requests' = requests \o reqs
           /\ stops_requests' =
                  stops_requests + Cardinality({k \in 1..Len(reqs) : reqs[k].path = "/stops"})
    /\ \E out \in CallOutcomes, incs \in IncludedLists, batch \in MainBatches :
        LET r == IF out.answered THEN main_pid(batch, incs, t_now, buckets)
                 ELSE main_pid(<<>>, <<>>, t_now, buckets)
        IN  IF out.pc = "raised"
            THEN /\ p_pc' = "raised"
                 /\ t_exc' = "ValueError"
                 /\ UNCHANGED <<buckets, pid_i>>
            ELSE IF r.exc # "none"
            THEN /\ p_pc' = "raised"
                 /\ t_exc' = r.exc
                 /\ buckets' = r.buckets
                 /\ UNCHANGED pid_i
            ELSE /\ buckets' = r.buckets
                 /\ pid_i' = pid_i + 1
                 /\ UNCHANGED <<p_pc, t_exc>>
    /\ UNCHANGED <<getVars, findVars, minVars, dirVars, fetchVars, resolved_targets, st_i, tick,
                   output, t_pc, t_parent_ids, included, preds, preds_left, trip_headsign,
                   t_now, processed, shown>>

\* lines 408-418: the station header and one sub-block per group
MainPrint ==
    /\ p_pc = "tick"
    /\ t_pc = "fetch"
    /\ pid_i > Len(t_parent_ids)
    /\ \E sh \in print_blocks(route_order, buckets) :
        /\ shown' = sh
        /\ output' = Append(output, Block(st_i, resolved_targets[st_i].station_name, sh, buckets))
    /\ t_pc' = "done"
    /\ st_i' = st_i + 1
    /\ UNCHANGED <<getVars, findVars, minVars, dirVars, fetchVars, p_pc, resolved_targets, tick,
                   requests, stops_requests, t_exc, t_parent_ids, pid_i, included, preds,
                   preds_left, trip_headsign, buckets, t_now, processed>>

\* line 421: time.sleep(POLL_SECONDS) after the last station
MainSleep ==
    /\ p_pc = "tick"
    /\ t_pc \in {"idle", "done"}
    /\ st_i > Len(resolved_targets)
    /\ p_pc' = "sleep"
    /\ UNCHANGED <<getVars, findVars, minVars, dirVars, fetchVars, tickVars, resolved_targets,
                   st_i, tick, output, requests, stops_requests>>

\* lines 349-354: the next iteration of `while True`
MainNextTick ==
    /\ p_pc = "sleep"
    /\ tick < MaxTicks
    /\ p_pc' = "tick"
    /\ tick' = tick + 1
    /\ st_i' = 1
    /\ output' = <<>>
    /\ requests' = <<>>
    /\ UNCHANGED <<getVars, findVars, minVars, dirVars, fetchVars, tickVars, resolved_targets,
                   stops_requests>>

\* lines 422-423: KeyboardInterrupt in the poll loop
MainInterrupt ==
    /\ p_pc \in {"tick", "sleep"}
    /\ p_pc' = "interrupted"
    /\ UNCHANGED <<getVars, findVars, minVars, dirVars, fetchVars, tickVars, resolved_targets,
                   st_i, tick, output, requests, stops_requests>>

MainNext ==
    \/ MainResolve
    \/ MainCheck
    \/ MainStation
    \/ MainPid
    \/ MainPrint
    \/ MainSleep
    \/ MainNextTick
    \/ MainInterrupt

SpecMain == MainInit /\ [][MainNext]_vars

\* a response is a failure of the generic kind: an exception of SESSION.get
\* or a non-success status other than 429
GenericFailure(r) == r.exc # "none" \/ (r.status >= 400 /\ r.status # 429)

Success(r) == r.exc = "none" /\ r.status = 200 /\ r.json

RateLimit(r) == r.exc = "none" /\ r.status = 429

\* C4: when every attempt fails with a non-429 status or a network failure,
\* mbta_get makes exactly 3 attempts and then returns the empty payload
\* without raising; a success on attempt 1, 2 or 3 after such failures is
\* returned at once.
C4_ExhaustedRetriesReturnFallback ==
    LET n == Len(resps)
    IN  /\ (\A i \in 1..n : GenericFailure(resps[i])) =>
              /\ g_pc # "raised"
              /\ n <= 3
              /\ (g_pc = "returned") = (n = 3)
              /\ g_pc = "returned" => g_ret = Fallback
        /\ (n >= 1 /\ Success(resps[n]) /\ \A i \in 1..(n - 1) : GenericFailure(resps[i])) =>
              /\ n <= 3
              /\ g_pc = "returned"
              /\ g_ret = resps[n].body

C4_Witness ==
    /\ g_pc = "returned"
    /\ Len(resps) = 3
    /\ \A i \in 1..3 : GenericFailure(resps[i])
    /\ g_ret = Fallback

\* number of outcomes other than 429 among the first n outcomes of the call
RECURSIVE CountedFailures(_)
CountedFailures(n) ==
    IF n = 0 THEN 0
    ELSE CountedFailures(n - 1) + (IF RateLimit(resps[n]) THEN 0 ELSE 1)

\* C5: a 429 response is not counted against the budget of 3 attempts: a call
\* that gives up (returns without a successful response) has seen 3 failures
\* other than 429, so 429, 429, 429, 200 returns the 200 payload.
C5_RateLimitNotCounted ==
    (g_pc = "returned" /\ ~Success(resps[Len(resps)])) => CountedFailures(Len(resps)) = 3

\* C6: no error escapes the Transport: mbta_get never raises, whatever the
\* upstream outcomes are.
C6_TransportNeverRaises == g_pc # "raised"

\* the identifiers the claim names: over the stops returned whose name equals
\* the target case-insensitively, the parent_station if the stop has one,
\* else the stop's own id
ExpectedIdents ==
    {(IF s.parent_station.present /\ Len(s.parent_station.text) > 0
         THEN s.parent_station.text ELSE s.id) :
        s \in {x \in stops_seen : lower(x.name) = lower(station_name)}}

\* C7: find_station_parent_ids_for_routes returns exactly the identifiers
\* (parent_station if the stop has one, else its id) of the stops returned
\* for any of the routes whose name equals the target case-insensitively, as
\* a list in strictly ascending order (so duplicate-free: a platform and its
\* parent give one identifier), empty when no stop matches.
C7_ParentIdsUniqueSorted ==
    s_pc = "returned" =>
        /\ {s_result[i] : i \in 1..Len(s_result)} = ExpectedIdents
        /\ \A i \in 1..(Len(s_result) - 1) : TextLess(s_result[i], s_result[i + 1])
        /\ (\A s \in stops_seen : lower(s.name) # lower(station_name)) => s_result = <<>>

\* a platform and its parent station of the same name gave one identifier,
\* beside another identifier that sorts before it
C7_Witness ==
    /\ s_pc = "returned"
    /\ Len(s_result) = 2
    /\ \E a \in stops_seen, b \in stops_seen :
        /\ a # b
        /\ a.parent_station.present /\ a.parent_station.text = b.id
        /\ ~b.parent_station.present
        /\ lower(a.name) = lower(station_name) /\ lower(b.name) = lower(station_name)
        /\ a.name # station_name

\* the timestamp of the call names an instant: it parses and carries a zone
Aware(iso) == iso.kind \in {"z", "offset"}

\* seconds from now to the instant the timestamp names
SecondsAhead == (IF iso_str.kind = "z" THEN iso_str.local ELSE iso_str.local - iso_str.offset) - m_now

\* C8 as stated: 60 seconds ahead gives 0, 61 seconds ahead gives 1, a
\* timestamp before now gives 0.
C8_Original ==
    (m_pc = "returned" /\ Aware(iso_str)) =>
        /\ SecondsAhead = 60 => m_result = Some(0)
        /\ SecondsAhead = 61 => m_result = Some(1)
        /\ SecondsAhead < 0 => m_result = Some(0)

\* C8 as amended: 60 seconds ahead is a whole minute and gives 1 (59
\* seconds ahead gives 0), 61 seconds ahead gives 1, a timestamp before now
\* gives 0.
C8_MinuteBoundary ==
    (m_pc = "returned" /\ Aware(iso_str)) =>
        /\ SecondsAhead = 59 => m_result = Some(0)
        /\ SecondsAhead = 60 => m_result = Some(1)
        /\ SecondsAhead = 61 => m_result = Some(1)
        /\ SecondsAhead < 0 => m_result = Some(0)

C8_Witness ==
    /\ m_pc = "returned"
    /\ iso_str.kind = "offset" /\ iso_str.offset # 0
    /\ SecondsAhead = 60
    /\ m_result = Some(1)

\* the display groups printed
ShownGroups == {shown[i].display_rid : i \in 1..Len(shown)}

\* how often entry e stands in the list items
Occurrences(e, items) == Cardinality({k \in 1..Len(items) : items[k] = e})

\* the distinct entries the group of block blk accumulated
Accumulated(blk) == BagToSet(buckets[blk.display_rid])

\* C1: every group shown has at most MAX_PREDICTIONS_PER_BUCKET entries, in
\* ascending order of minutes, all of them accumulated by the group; a group
\* that accumulated more distinct entries shows exactly the maximum, and no
\* omitted entry is nearer than a shown one.
C1_TopNNearest ==
    t_pc = "done" =>
        \A i \in 1..Len(shown) :
            LET items == shown[i].items
                all == Accumulated(shown[i])
                kept == {items[k] : k \in 1..Len(items)}
            IN  /\ Len(items) <= MAX_PREDICTIONS_PER_BUCKET
                /\ \A k \in 1..(Len(items) - 1) : items[k][1] <= items[k + 1][1]
                /\ kept \subseteq all
                /\ Cardinality(all) > MAX_PREDICTIONS_PER_BUCKET =>
                       Len(items) = MAX_PREDICTIONS_PER_BUCKET
                /\ \A o \in all \ kept, e \in kept : o[1] >= e[1]

\* a group with more distinct entries than the maximum, one of them omitted
\* although it is as near as a shown one, another because it is farther
C1_Witness ==
    /\ t_pc = "done"
    /\ \E i \in 1..Len(shown) :
        LET items == shown[i].items
            all == Accumulated(shown[i])
            kept == {items[k] : k \in 1..Len(items)}
        IN  /\ Cardinality(all) > MAX_PREDICTIONS_PER_BUCKET
            /\ Len(items) = MAX_PREDICTIONS_PER_BUCKET
            /\ items[1][1] < items[3][1]
            /\ \E o \in all \ kept : o[1] = items[3][1]

\* C2: a pair (minutes, headsign) that records of the station put into a
\* group, however often and from whichever parent id, stands at most once in
\* the group's shown list, and exactly once when the group's distinct pairs
\* fit the maximum: pairs differing in a field are both kept.
C2_ExactDuplicatesOnce ==
    t_pc = "done" =>
        /\ \A i \in 1..Len(shown) :
            LET items == shown[i].items
                all == Accumulated(shown[i])
            IN  /\ \A e \in all : Occurrences(e, items) <= 1
                /\ Cardinality(all) <= MAX_PREDICTIONS_PER_BUCKET =>
                       \A e \in all : Occurrences(e, items) = 1
                /\ Cardinality(all) > MAX_PREDICTIONS_PER_BUCKET =>
                       Len(items) = MAX_PREDICTIONS_PER_BUCKET

\* two parent ids; a pair put twice into a group and shown once, beside a pair
\* of the same minutes and another headsign
C2_Witness ==
    /\ t_pc = "done"
    /\ Len(t_parent_ids) = 2
    /\ \E i \in 1..Len(shown) :
        LET items == shown[i].items
            b == buckets[shown[i].display_rid]
        IN  \E e \in BagToSet(b), f \in BagToSet(b) :
                /\ CopiesIn(e, b) >= 2
                /\ Occurrences(e, items) = 1
                /\ f[1] = e[1] /\ f[2] # e[2]
                /\ Occurrences(f, items) = 1

\* C9: minutes are never negative.  Whenever the loop is about to handle a
\* record, minutes_until at the clock's time gives, for every timestamp, no
\* value if the timestamp is absent, empty or does not parse to an instant,
\* and otherwise the whole minutes from now to it, 0 if it is past; and every
\* entry of every bucket and of every shown list has minutes >= 0.
C9_MinutesNeverNegative ==
    /\ (t_pc = "records" /\ preds_left > 0) =>
          \A ts \in Timestamps :
              LET r == minutes_until(ts, t_now)
                  d == (IF ts.kind = "z" THEN ts.local ELSE ts.local - ts.offset) - t_now
              IN  IF ts.kind \in {"z", "offset"}
                  THEN /\ r.some
                       /\ r.v >= 0
                       /\ d < 0 => r.v = 0
                       /\ d >= 0 => (60 * r.v <= d /\ d < 60 * r.v + 60)
                  ELSE r = NoValue
    /\ \A g \in DOMAIN buckets : \A e \in BagToSet(buckets[g]) : e[1] >= 0
    /\ \A i \in 1..Len(shown) : \A k \in 1..Len(shown[i].items) : shown[i].items[k][1] >= 0

\* an entry of a past timestamp (0 minutes) and one of a later minute are shown
C9_Witness ==
    /\ t_pc = "done"
    /\ \E i \in 1..Len(shown) :
        \E k \in 1..Len(shown[i].items), l \in 1..Len(shown[i].items) :
            shown[i].items[k][1] = 0 /\ shown[i].items[l][1] = 1

\* the record is of the documented shape: times, route and trip are there
WellFormed(p) ==
    /\ p.attributes \in TimesGood
    /\ p.relationships.t = "obj"
    /\ p.relationships.route \in RouteRelsGood
    /\ p.relationships.trip \in TripRelsGood

\* the malformations the claim lists that leave the record without a route
\* id or without a timestamp that parses
Malformed(p) ==
    \/ p.relationships.t = "absent"
    \/ p.relationships.t = "obj" /\ p.relationships.route.t = "absent"
    \/ p.relationships.t = "obj" /\ p.relationships.route.t = "obj"
           /\ p.relationships.route.data = "null"
    \/ p.attributes.t = "obj" /\ falsy(p.attributes.arrival_time)
           /\ falsy(p.attributes.departure_time)
    \/ p.attributes.t = "obj" /\ p.attributes.arrival_time.kind = "garbage"

\* the malformations of the trip relationship the claim lists
TripMalformed(p) ==
    /\ p.relationships.t = "obj"
    /\ \/ p.relationships.trip.t = "absent"
       \/ p.relationships.trip.t = "obj" /\ p.relationships.trip.data = "null"

\* C3: no record of a batch makes the aggregation raise: a malformed record
\* is dropped, a record whose trip relationship is malformed does not raise
\* either, and every well-formed record of the batch is aggregated.
C3_MalformedRecordDropped ==
    /\ t_exc # "AttributeError"
    /\ \A i \in 1..Len(processed) :
        LET p == processed[i].p
            out == processed[i].out
        IN  /\ Malformed(p) => out.kind = "skip"
            /\ TripMalformed(p) => out.kind # "raise"
            /\ WellFormed(p) =>
                  /\ out.kind = "append"
                  /\ out.display_rid \in DOMAIN buckets
                  /\ BagIn(<<out.mins, out.hs>>, buckets[out.display_rid])

\* the headsign the trip lookup gives the record ("" when the record names
\* no trip or the lookup does not hold it)
TripHeadsign(p) ==
    LET trip == p.relationships.trip
    IN  IF p.relationships.t = "obj" /\ trip.t = "obj" /\ trip.data = "obj" /\ trip.has_id
           /\ trip.id \in DOMAIN trip_headsign
        THEN trip_headsign[trip.id]
        ELSE <<>>

GreenFamily == {<<"Green", "B">>, <<"Green", "C">>, <<"Green", "D">>, <<"Green", "E">>}

\* the records handled that put an entry into a bucket
Appended == {i \in 1..Len(processed) : processed[i].out.kind = "append"}

RouteOf(i) == processed[i].p.relationships.route.id

\* C10: a record of a Green branch goes to the group "Green" and its shown
\* headsign carries the tag of its branch, so that two records of different
\* branches whose trip headsigns are equal (empty or not found included)
\* have different headsigns; a record of another route goes to the group of
\* its route id with the trip's headsign unchanged.
C10_FamilyCollapsedAndTagged ==
    /\ \A i \in Appended :
        LET out == processed[i].out
        IN  IF RouteOf(i) \in GreenFamily
            THEN /\ out.display_rid = <<"Green">>
                 /\ \E k \in 1..Len(out.hs) : out.hs[k] = Tag(RouteOf(i)[2])
            ELSE /\ out.display_rid = RouteOf(i)
                 /\ out.hs = TripHeadsign(processed[i].p)
    /\ \A i \in Appended, j \in Appended :
        (/\ RouteOf(i) \in GreenFamily /\ RouteOf(j) \in GreenFamily
         /\ RouteOf(i) # RouteOf(j)
         /\ TripHeadsign(processed[i].p) = TripHeadsign(processed[j].p))
            => processed[i].out.hs # processed[j].out.hs

\* the last call asked the upstream and got a pair of labels, both of them str
LabelPairCall ==
    /\ d_calls # <<>>
    /\ d_calls[Len(d_calls)].looked_up
    /\ d_calls[Len(d_calls)].exc = "none"
    /\ d_data.shape = "names"
    /\ Len(d_data.names) = 2
    /\ d_data.names[1].str /\ d_data.names[2].str

\* C11: for a label pair that is, case-insensitively, Outbound then Inbound
\* the result is {outbound: 0, inbound: 1}; for Inbound then Outbound each
\* key has the position of its label, {inbound: 0, outbound: 1}; for every
\* other pair the result is the positional {outbound: 0, inbound: 1}.
C11_DirectionMapOfLabelPair ==
    LabelPairCall =>
        LET first == lower(d_data.names[1].text)
            second == lower(d_data.names[2].text)
            result == d_calls[Len(d_calls)].result
        IN  IF first = lower(Inbound) /\ second = lower(Outbound)
            THEN result = [inbound |-> 0, outbound |-> 1]
            ELSE result = [outbound |-> 0, inbound |-> 1]

\* the labels came as "inbound", "OUTBOUND" and each key got its own position
C11_Witness ==
    /\ LabelPairCall
    /\ d_data.names[1].text = lower(Inbound)
    /\ d_data.names[2].text # lower(Outbound)
    /\ lower(d_data.names[2].text) = lower(Outbound)
    /\ d_calls[Len(d_calls)].result = [inbound |-> 0, outbound |-> 1]

C13_DirectionMapNeverRaises ==
    /\ d_exc \notin {"TypeError", "AttributeError"}
    /\ \A i \in 1..Len(d_calls) :
        d_calls[i].exc \in {"none", "ValueError"}
    /\ \A i \in 1..Len(d_calls) :
        d_calls[i].exc = "none" =>
            /\ d_calls[i].result.inbound \in 0..MaxNames
            /\ d_calls[i].result.outbound \in 0..MaxNames

\* the records of the data of the payload, in upstream order
UpstreamRecords == IF f_j.data.present THEN f_j.data.items ELSE <<>>

C17_TickOutputDeterministic ==
    t_pc = "print" => \A a \in print_blocks(route_order, buckets) :
                          \A b \in print_blocks(route_order, buckets) : a = b

\* startup resolution has gone through every entry of CONFIG
ResolvedAll == Len(resolved_targets) = Len(CONFIG)

\* no station has a parent id
NoneResolved == \A i \in 1..Len(resolved_targets) : resolved_targets[i].parent_ids = <<>>

\* C14: once every configured station has been resolved, the process exits
\* with status 1, before any poll tick and any prediction request, if and
\* only if every station resolved to no parent id; if some station resolved
\* to a parent id there is no fatal exit and polling starts.
C14_StartupOutcome ==
    /\ p_pc = "exit1" => (tick = 0 /\ requests = <<>> /\ ResolvedAll /\ NoneResolved)
    /\ tick >= 1 => (ResolvedAll /\ ~NoneResolved)
    /\ (ResolvedAll /\ p_pc # "resolve") =>
           /\ (p_pc = "exit1") <=> NoneResolved
           /\ ~NoneResolved => tick >= 1

\* polling has started although all stations but one are unresolved
C14_Witness ==
    /\ p_pc = "tick"
    /\ tick = 1
    /\ Cardinality({i \in 1..Len(resolved_targets) : resolved_targets[i].parent_ids = <<>>}) = 3

\* C15: once polling has started no tick ends the process: whatever the
\* upstream answers, no exception escapes the poll loop.
C15_NoTickEndsProcess == tick >= 1 => p_pc # "raised"

\* the fixed priority order of the display groups
Priority == << <<"Blue">>, <<"Orange">>, <<"Red">>, <<"Green">> >>

\* the groups of Priority that are in the set had, in the order of Priority
InPriorityOrder(had) ==
    LET Has(g) == g \in had
    IN  SelectSeq(Priority, Has)

\* C16: within a tick the station blocks come in the order of CONFIG, and the
\* sub-blocks of a station are its groups that accumulated a prediction, in
\* the priority order Blue, Orange, Red, Green; a group that accumulated
\* none has no sub-block.
C16_OutputOrder ==
    \A k \in 1..Len(output) :
        /\ k > 1 => output[k - 1].index < output[k].index
        /\ output[k].index \in 1..Len(CONFIG)
        /\ output[k].station = CONFIG[output[k].index].station_name
        /\ output[k].groups = InPriorityOrder(output[k].had)

\* a later station's block shows Red before Green, after a block without groups
C16_Witness ==
    /\ Len(output) >= 2
    /\ output[1].groups = <<>>
    /\ output[2].groups = << <<"Red">>, <<"Green">> >>

\* the stops the tick asked predictions for on behalf of station i, in order
RequestedFor(i) ==
    LET Mine(r) == r.station = i
        mine == SelectSeq(requests, Mine)
    IN  [k \in 1..Len(mine) |-> mine[k].stop]

\* C18: a station without parent ids is skipped in every tick: no request is
\* made for it and no block, not even its header, is printed for it; the
\* other stations are processed: when the tick is over each of them has its
\* block and one prediction request per parent id.
C18_UnresolvedStationSkipped ==
    \A i \in 1..Len(resolved_targets) :
        IF resolved_targets[i].parent_ids = <<>>
        THEN /\ RequestedFor(i) = <<>>
             /\ \A k \in 1..Len(output) : output[k].index # i
        ELSE p_pc = "sleep" =>
                /\ RequestedFor(i) = resolved_targets[i].parent_ids
                /\ \E k \in 1..Len(output) : output[k].index = i

\* the second tick is over: the first station was skipped, the second printed
C18_Witness ==
    /\ p_pc = "sleep"
    /\ tick = 2
    /\ resolved_targets[1].parent_ids = <<>>
    /\ Len(resolved_targets[2].parent_ids) = 2
    /\ output # <<>> /\ output[1].index = 2

\* C19: after the first tick has begun, no /stops request is made and the
\* parent ids of every station stay what startup resolution produced.
C19_NoReResolution ==
    [][tick >= 1 => (resolved_targets' = resolved_targets /\ stops_requests' = stops_requests)]_vars

\* in the second tick predictions have been requested, and the /stops
\* requests are still those of startup, one per route of each station
C19_Witness ==
    /\ tick = 2
    /\ requests # <<>>
    /\ stops_requests = 11

\* C23: every call of mbta_get ends after at most 3 GETs, whatever mixture
\* of 429 responses, error statuses and network failures it meets, and
\* when all three responses are 429 it returns the empty payload.
C23_AtMostThreeGets ==
    /\ Len(resps) <= 3
    /\ Len(resps) = 3 => g_pc # "loop"
    /\ (Len(resps) = 3 /\ \A i \in 1..3 : RateLimit(resps[i])) =>
           (g_pc = "returned" /\ g_ret = Fallback)

\* C22: every display group that accumulated a prediction for the station is
\* shown in the station's block, whatever route ids the records carry; only
\* groups without predictions are left out.
C22_EveryGroupShown ==
    t_pc = "done" => \A g \in DOMAIN buckets : g \in ShownGroups

\* the requests of the tick made on behalf of station i, in order
RequestsOf(i) ==
    LET Mine(r) == r.station = i
    IN  SelectSeq(requests, Mine)

\* the sum of the numbers of parent ids of the first n stations
RECURSIVE ParentIdCount(_)
ParentIdCount(n) ==
    IF n = 0 THEN 0
    ELSE ParentIdCount(n - 1) + Len(resolved_targets[n].parent_ids)

\* C21: in a tick every request is a /predictions request that carries all
\* configured routes of its station in one comma-joined filter, the
\* requests of a station go to its parent ids in order, one each, and when
\* the tick is over their number is the sum of the numbers of parent ids of
\* the stations, whatever the numbers of routes and directions.
C21_OneRequestPerParentId ==
    /\ \A k \in 1..Len(requests) :
           /\ requests[k].path = "/predictions"
           /\ requests[k].route = join(CONFIG[requests[k].station].routes)
    /\ \A i \in 1..Len(resolved_targets) :
           /\ Len(RequestsOf(i)) <= Len(resolved_targets[i].parent_ids)
           /\ \A k \in 1..Len(RequestsOf(i)) :
                  RequestsOf(i)[k].stop = resolved_targets[i].parent_ids[k]
           /\ p_pc = "sleep" =>
                  Len(RequestsOf(i)) = Len(resolved_targets[i].parent_ids)
    /\ p_pc = "sleep" => Len(requests) = ParentIdCount(Len(resolved_targets))

\* a tick is over in which the station of five routes had two parent ids and
\* the station of one route had one: three requests, two of them with the
\* five routes in one filter
C21_Witness ==
    /\ p_pc = "sleep"
    /\ Len(resolved_targets[1].parent_ids) = 1
    /\ Len(resolved_targets[3].parent_ids) = 2
    /\ Len(requests) = 3
    /\ requests[1].route = <<"Blue">>
    /\ requests[2].route =
           <<"Red", ",", "Green-B", ",", "Green-C", ",", "Green-D", ",", "Green-E">>
    /\ requests[2].stop # requests[3].stop
    /\ requests[3].route = requests[2].route

=============================================================================
